---- MODULE Spec2Model ----
(***************************************************************************)
(* A model of file_system_info.py: main() reads a directory path, scans it *)
(* with get_file_info (os.walk, one record and one tree node per file),    *)
(* and reports with display_results (pandas aggregates, five bar charts,   *)
(* a window, a PDF, the Qt event loop).                                    *)
(*                                                                         *)
(* Paths are sequences of names: os.path.join(root, file) is Append.       *)
(* A size in KB is held in hundredths (round(x, 2) yields the double that  *)
(* prints as that 2-decimal number); the sums pandas computes over those   *)
(* doubles are modelled bit for bit (see the section on doubles).          *)
(***************************************************************************)
EXTENDS Integers, Sequences, FiniteSets

(* ------------------------------------------------------------------ *)
(* Bounds of the model                                                 *)
(* ------------------------------------------------------------------ *)

\* At most this many non-directory entries in the scanned tree.
MaxFiles == 3

\* The directory names of the model: top, top/a, top/a/b.
Top == <<"top">>
DirA == <<"top", "a">>
DirB == <<"top", "a", "b">>

\* The directory trees the model draws from: no tree at all, a lone root,
\* a root with a subfolder, a root with a subfolder nested two levels deep.
DirShapes == { {}, {Top}, {Top, DirA}, {Top, DirA, DirB} }

\* The entry names a directory may hold beside its subdirectories.
FileNames == {"f.txt", "g"}

\* The byte sizes a file may have.
Sizes == {47, 128, 512, 2048}

\* What a non-directory entry may be: a regular file, a special file (FIFO,
\* socket, device: stat succeeds, size 0), a dangling symlink (stat fails
\* with ENOENT) or an entry whose stat is refused (EACCES).
FileOptions ==
    [kind : {"regular"}, size : Sizes]
        \cup [kind : {"special", "dangling", "denied"}, size : {0}]

\* The paths the user may type at the prompt.
InputPaths == {Top, <<"top", "g">>}

None == <<>>

(* ------------------------------------------------------------------ *)
(* State                                                               *)
(* ------------------------------------------------------------------ *)

VARIABLES
    dirs,            \* the file system: the directories that exist
    files,           \* the file system: path -> [kind, size] of each non-directory entry
    directory,       \* main: the path read from the prompt
    pc,              \* the statement main is at
    stack,           \* os.walk: directories still to be listed, next first
    root,            \* os.walk: the directory being yielded
    todo,            \* os.walk: names of `files` not yet visited by the inner loop
    file_data,       \* get_file_info: the records appended so far
    file_structure,  \* get_file_info: the treelib tree, a set of nodes
    raised,          \* the exception raised in this run (NoException when none)
    out,             \* what has been printed
    events,          \* the effects of the reporter, in the order they happened
    charts,          \* the bar charts built so far: [title, view]
    pdf              \* the rows written to file_analysis_report.pdf, or NotWritten

vars == <<dirs, files, directory, pc, stack, root, todo, file_data,
          file_structure, raised, out, events, charts, pdf>>

fsvars == <<dirs, files, directory>>

(* ------------------------------------------------------------------ *)
(* Helpers                                                             *)
(* ------------------------------------------------------------------ *)

\* All orderings of a finite set, as sequences.
Orderings(S) ==
    { s \in [1..Cardinality(S) -> S] : \A i, j \in DOMAIN s : s[i] = s[j] => i = j }

\* All permutations of a sequence.
SeqPermutations(s) ==
    { [i \in DOMAIN s |-> s[p[i]]] : p \in Orderings(DOMAIN s) }

Parent(p) == SubSeq(p, 1, Len(p) - 1)

Basename(p) == p[Len(p)]

\* The entry slots of a directory shape.
Slots(shape) == { Append(d, n) : d \in shape, n \in FileNames }

(* ------------------------------------------------------------------ *)
(* IEEE-754 doubles                                                    *)
(*                                                                     *)
(* Every double the reporter handles is a multiple of 2^-59 (the ulp   *)
(* of 0.01, the least non-zero size) and below 2^20, so a double is    *)
(* held exactly as a sign and a magnitude in units of 2^-59: four      *)
(* limbs of 20 bits, least significant first.  An operation computes   *)
(* the exact result and rounds it to 53 significant bits, ties to      *)
(* even, as the hardware does.                                         *)
(* ------------------------------------------------------------------ *)

\* Significant bits of a double.
MantBits == 53

LimbBits == 20

LimbBase == 2^LimbBits

NumLimbs == 4

\* The magnitude unit is 2^-UnitExp.
UnitExp == 59

ZeroMag == [i \in 1..NumLimbs |-> 0]

RECURSIVE AddFrom(_, _, _, _)
AddFrom(a, b, i, carry) ==
    IF i > NumLimbs THEN <<>>
    ELSE LET s == a[i] + b[i] + carry
         IN  <<s % LimbBase>> \o AddFrom(a, b, i + 1, s \div LimbBase)

MagAdd(a, b) == AddFrom(a, b, 1, 0)

RECURSIVE SubFrom(_, _, _, _)
SubFrom(a, b, i, borrow) ==
    IF i > NumLimbs THEN <<>>
    ELSE LET d == a[i] - b[i] - borrow
         IN  IF d < 0 THEN <<d + LimbBase>> \o SubFrom(a, b, i + 1, 1)
             ELSE <<d>> \o SubFrom(a, b, i + 1, 0)

\* a - b for a >= b.
MagSub(a, b) == SubFrom(a, b, 1, 0)

RECURSIVE LessFrom(_, _, _)
LessFrom(a, b, i) ==
    IF i = 0 THEN FALSE
    ELSE IF a[i] # b[i] THEN a[i] < b[i]
    ELSE LessFrom(a, b, i - 1)

MagLess(a, b) == LessFrom(a, b, NumLimbs)

RECURSIVE BitLen(_)
BitLen(n) == IF n = 0 THEN 0 ELSE 1 + BitLen(n \div 2)

RECURSIVE BitsFrom(_, _)
BitsFrom(a, i) ==
    IF i = 0 THEN 0
    ELSE IF a[i] # 0 THEN LimbBits * (i - 1) + BitLen(a[i])
    ELSE BitsFrom(a, i - 1)

\* The number of significant bits of a magnitude.
MagBits(a) == BitsFrom(a, NumLimbs)

\* Round a magnitude to MantBits significant bits, ties to even.  `below`
\* describes what the exact value holds under the unit: 0 nothing, 1 less
\* than half a unit, 2 half a unit, 3 more.
RoundNearestEven(a, below) ==
    LET d == MagBits(a) - MantBits
    IN  IF d <= 0
        THEN IF below = 3 \/ (below = 2 /\ a[1] % 2 = 1)
             THEN MagAdd(a, [ZeroMag EXCEPT ![1] = 1])
             ELSE a
        ELSE LET unit == 2^d
                 low  == a[1] % unit
                 half == unit \div 2
                 kept == [a EXCEPT ![1] = a[1] - low]
                 odd  == (a[1] \div unit) % 2 = 1
                 up   == low > half \/ (low = half /\ (below > 0 \/ odd))
             IN  IF up THEN MagAdd(kept, [ZeroMag EXCEPT ![1] = unit]) ELSE kept

\* A double: zero is never negative (0.0 == -0.0 in Python).
MkDouble(neg, mag) == [neg |-> neg /\ mag # ZeroMag, mag |-> mag]

FZero == MkDouble(FALSE, ZeroMag)

\* Python: x + y
FAdd(x, y) ==
    IF x.neg = y.neg
    THEN MkDouble(x.neg, RoundNearestEven(MagAdd(x.mag, y.mag), 0))
    ELSE IF MagLess(x.mag, y.mag)
    THEN MkDouble(y.neg, RoundNearestEven(MagSub(y.mag, x.mag), 0))
    ELSE MkDouble(x.neg, RoundNearestEven(MagSub(x.mag, y.mag), 0))

FNeg(x) == MkDouble(~x.neg, x.mag)

\* Python: x - y
FSub(x, y) == FAdd(x, FNeg(y))

RECURSIVE DivFrom(_, _, _, _)
\* Short division of a magnitude by a small divisor, most significant limb
\* first: <<quotient, remainder>>.
DivFrom(a, by, i, rem) ==
    IF i = 0 THEN <<<<>>, rem>>
    ELSE LET cur  == rem * LimbBase + a[i]
             rest == DivFrom(a, by, i - 1, cur % by)
         IN  <<Append(rest[1], cur \div by), rest[2]>>

\* The double nearest to k/100: what round(x, 2) returns for the 2-decimal
\* number k/100.
FromHundredths(k) ==
    LET t   == k * 2^(UnitExp - 2 * LimbBits)
        num == <<0, 0, t % LimbBase, t \div LimbBase>>
        qr  == DivFrom(num, 100, NumLimbs, 0)
        r   == qr[2]
        below == IF r = 0 THEN 0 ELSE IF 2 * r < 100 THEN 1
                 ELSE IF 2 * r = 100 THEN 2 ELSE 3
    IN  MkDouble(FALSE, RoundNearestEven(qr[1], below))

RECURSIVE MulFrom(_, _, _, _)
MulFrom(a, by, i, carry) ==
    IF i > NumLimbs THEN <<>>
    ELSE LET p == a[i] * by + carry
         IN  <<p % LimbBase>> \o MulFrom(a, by, i + 1, p \div LimbBase)

\* The 2-decimal number nearest to a non-negative double, in hundredths:
\* what the double shows when printed with two decimals.
ToHundredths(x) ==
    LET p    == MulFrom(x.mag, 100, 1, 0)
        sh   == UnitExp - 2 * LimbBits
        q    == p[4] * 2^(LimbBits - sh) + p[3] \div 2^sh
        half == (p[3] \div 2^(sh - 1)) % 2
    IN  q + half

(* ------------------------------------------------------------------ *)
(* The libraries get_file_info calls                                   *)
(* ------------------------------------------------------------------ *)

\* Variant of Exists: os.path.lexists, for which a dangling link exists.
ExistsLink(p) == p \in dirs \/ p \in DOMAIN files

\* os.path.exists(p): stat succeeds (a dangling link or a refused stat is False).
Exists(p) ==
    \/ p \in dirs
    \/ p \in DOMAIN files /\ files[p].kind \in {"regular", "special"}

\* os.walk: the subdirectories and the non-directory names scandir lists in d.
SubDirs(d) == { c \in dirs : Len(c) = Len(d) + 1 /\ Parent(c) = d }

NonDirs(d) == { Basename(p) : p \in { q \in DOMAIN files : Parent(q) = d } }

\* mimetypes.guess_type(path)[0]: by the extension of the name; "" is None.
GuessType(path) == IF Basename(path) = "f.txt" THEN "text/plain" ELSE ""

\* Variant of RoundKB: the quotient truncated instead of rounded.
RoundKBTruncated(file_size) == (100 * file_size) \div 1024

\* round(file_size / 1024, 2), in hundredths: file_size / 1024 is exact in a
\* double, and round() rounds the exact value, ties to the even hundredth.
RoundKB(file_size) ==
    LET q == (100 * file_size) \div 1024
        r == (100 * file_size) % 1024
    IN  IF 2 * r > 1024 \/ (2 * r = 1024 /\ q % 2 = 1) THEN q + 1 ELSE q

\* treelib.Tree
EmptyTree == {}

Contains(tree, nid) == \E n \in tree : n.id = nid

\* Tree.create_node(tag, identifier, parent): the tree, or the error raised.
CreateNode(tree, tag, nid, parent) ==
    IF Contains(tree, nid)
    THEN [err |-> "DuplicatedNodeIdError", tree |-> tree]
    ELSE IF parent = None /\ tree # EmptyTree
    THEN [err |-> "MultipleRootError", tree |-> tree]
    ELSE IF parent # None /\ ~Contains(tree, parent)
    THEN [err |-> "NodeIDAbsentError", tree |-> tree]
    ELSE [err |-> "None",
          tree |-> tree \cup {[id |-> nid, tag |-> tag, parent |-> parent]}]

NoException == [cls |-> "None", msg |-> "", at |-> None]

Raise(cls, msg, at) == [cls |-> cls, msg |-> msg, at |-> at]

NotWritten == <<"not written">>

(* ------------------------------------------------------------------ *)
(* get_file_info                                                       *)
(* ------------------------------------------------------------------ *)

\* Variant of FileRecord: the scanned root stored as the folder.
FileRecordTopFolder(folder, file, file_size, file_type) ==
    [Folder     |-> directory,
     FileName   |-> file,
     FileSizeKB |-> RoundKB(file_size),
     FileType   |-> IF file_type # "" THEN file_type ELSE "Unknown"]

\* One record of file_data.
FileRecord(folder, file, file_size, file_type) ==
    [Folder     |-> folder,
     FileName   |-> file,
     FileSizeKB |-> RoundKB(file_size),
     FileType   |-> IF file_type # "" THEN file_type ELSE "Unknown"]

\* Variant of FileNodeId: the file's name alone as the identifier.
FileNodeIdByName(folder, file) == <<file>>

\* Variant of FolderNodeParent: the folder's own parent directory.
FolderNodeParentNested(folder) == Parent(folder)

\* The node identifier and the parent the file's node is created with.
FileNodeId(folder, file) == Append(folder, file)

FolderNodeParent(folder) == directory

\* Lines 34-36: the folder node when the tree lacks it, then the file node.
AddToTree(tree, folder, file) ==
    LET t1 == IF ~Contains(tree, folder)
              THEN CreateNode(tree, folder, folder, FolderNodeParent(folder))
              ELSE [err |-> "None", tree |-> tree]
    IN  IF t1.err # "None" THEN t1
        ELSE CreateNode(t1.tree, file, FileNodeId(folder, file), folder)

\* Lines 14-19: the existence check, the empty list, the tree and its root.
get_file_info ==
    /\ pc = "get_file_info"
    /\ IF ~Exists(directory)
       THEN /\ raised' = Raise("FileNotFoundError",
                               "The specified file path does not exist. Please provide a valid directory.",
                               directory)
            /\ pc' = "except"
            /\ UNCHANGED <<stack, file_data, file_structure>>
       ELSE /\ file_data' = <<>>
            /\ file_structure' = CreateNode(EmptyTree, directory, directory, None).tree
            /\ stack' = <<directory>>
            /\ pc' = "walk"
            /\ UNCHANGED raised
    /\ UNCHANGED <<fsvars, root, todo, out, events, charts, pdf>>

\* Variant of Exhausted: the walk also ends once a folder has given records.
ExhaustedEarly(pending) == pending = <<>> \/ file_data # <<>>

\* Line 21: the generator has no directory left to yield.
Exhausted(pending) == pending = <<>>

\* Line 21: os.walk yields the next directory, top-down and depth-first; its
\* subdirectories come in the order scandir lists them, which is arbitrary.
\* A path that is no directory is skipped silently (onerror is None).  When
\* nothing is left the function returns (line 38).
os_walk ==
    /\ pc = "walk"
    /\ IF Exhausted(stack)
       THEN /\ pc' = "display_results"
            /\ UNCHANGED <<stack, root, todo>>
       ELSE IF Head(stack) \notin dirs
       THEN /\ stack' = Tail(stack)
            /\ UNCHANGED <<pc, root, todo>>
       ELSE \E order \in Orderings(SubDirs(Head(stack))) :
            /\ stack' = order \o Tail(stack)
            /\ root' = Head(stack)
            /\ todo' = NonDirs(Head(stack))
            /\ pc' = IF NonDirs(Head(stack)) = {} THEN "walk" ELSE "files"
    /\ UNCHANGED <<fsvars, file_data, file_structure, raised, out, events, charts, pdf>>

\* Lines 22-36: one pass of the inner loop, over any file not yet visited
\* (the order of `files` is the order scandir lists them).
visit_file ==
    /\ pc = "files"
    /\ \E file \in todo :
         LET file_path == Append(root, file)
             entry     == files[file_path]
             added     == AddToTree(file_structure, root, file)
         IN  IF entry.kind = "dangling"
             THEN /\ raised' = Raise("FileNotFoundError", "[Errno 2] No such file or directory", file_path)
                  /\ pc' = "except"
                  /\ UNCHANGED <<todo, file_data, file_structure>>
             ELSE IF entry.kind = "denied"
             THEN /\ raised' = Raise("PermissionError", "[Errno 13] Permission denied", file_path)
                  /\ pc' = "except"
                  /\ UNCHANGED <<todo, file_data, file_structure>>
             ELSE /\ file_data' = Append(file_data,
                                         FileRecord(root, file, entry.size, GuessType(file_path)))
                  /\ file_structure' = added.tree
                  /\ IF added.err # "None"
                     THEN /\ raised' = Raise(added.err, "tree", file_path)
                          /\ pc' = "except"
                          /\ UNCHANGED todo
                     ELSE /\ todo' = todo \ {file}
                          /\ pc' = IF todo = {file} THEN "walk" ELSE "files"
                          /\ UNCHANGED raised
    /\ UNCHANGED <<fsvars, stack, root, out, events, charts, pdf>>

(* ------------------------------------------------------------------ *)
(* The aggregations display_results asks of pandas                     *)
(* ------------------------------------------------------------------ *)

\* The labels of a column: the values it holds.
Labels(df, column) == { df[i][column] : i \in DOMAIN df }

\* One step of the compensated (Kahan) accumulation of pandas' group_sum.
KahanAdd(acc, val) ==
    LET y == FSub(val, acc.compensation)
        t == FAdd(acc.sumx, y)
    IN  [sumx |-> t, compensation |-> FSub(FSub(t, acc.sumx), y)]

RECURSIVE GroupSumFrom(_, _, _, _)
\* group_sum: one pass over the rows in order, one accumulator per label.
GroupSumFrom(df, by, i, acc) ==
    IF i > Len(df) THEN acc
    ELSE LET lab == df[i][by]
             val == FromHundredths(df[i].FileSizeKB)
         IN  GroupSumFrom(df, by, i + 1, [acc EXCEPT ![lab] = KahanAdd(acc[lab], val)])

\* Variant of GroupSum: the first row is left out of the pass.
GroupSumSkipsFirst(df, by) ==
    LET acc == GroupSumFrom(df, by, 2,
                            [lab \in Labels(df, by) |-> [sumx |-> FZero, compensation |-> FZero]])
    IN  [lab \in Labels(df, by) |-> acc[lab].sumx]

\* Variant of GroupSum: a label keeps the size of its last row only.
GroupSumLastWins(df, by) ==
    [lab \in Labels(df, by) |->
        LET last == CHOOSE i \in DOMAIN df :
                       /\ df[i][by] = lab
                       /\ \A j \in DOMAIN df : df[j][by] = lab => j <= i
        IN  FromHundredths(df[last].FileSizeKB)]

\* df.groupby(by)['File Size (KB)'].sum(): label -> double.
GroupSum(df, by) ==
    LET acc == GroupSumFrom(df, by, 1,
                            [lab \in Labels(df, by) |-> [sumx |-> FZero, compensation |-> FZero]])
    IN  [lab \in Labels(df, by) |-> acc[lab].sumx]

RECURSIVE ValueCountsFrom(_, _, _, _)
ValueCountsFrom(df, column, i, acc) ==
    IF i > Len(df) THEN acc
    ELSE ValueCountsFrom(df, column, i + 1,
                         [acc EXCEPT ![df[i][column]] = acc[df[i][column]] + 1])

\* df[column].value_counts(): label -> number of rows.
ValueCounts(df, column) ==
    ValueCountsFrom(df, column, 1, [lab \in Labels(df, column) |-> 0])

\* Lines 91-113: the five charts, in the order they are built.
ChartTitles ==
    <<"File Size Distribution By Type", "File Count Per Folder", "File Type Count",
      "Folder-Wise File Size", "File Type-Wise Size Distribution">>

ChartView(i, df) ==
    CASE i = 1 -> GroupSum(df, "FileType")
      [] i = 2 -> ValueCounts(df, "Folder")
      [] i = 3 -> ValueCounts(df, "FileType")
      [] i = 4 -> GroupSum(df, "Folder")
      [] i = 5 -> GroupSum(df, "FileType")

(* ------------------------------------------------------------------ *)
(* display_results, save_pdf_report, main                              *)
(* ------------------------------------------------------------------ *)

\* Variant of Empty: the check never fires.
EmptyNever(df) == FALSE

\* Line 66: df.empty
Empty(df) == df = <<>>

\* Lines 65-68: the empty frame prints the notice and returns.
display_results ==
    /\ pc = "display_results"
    /\ IF Empty(file_data)
       THEN /\ out' = Append(out, [text |-> "No files found in the specified directory.", msg |-> ""])
            /\ pc' = "done"
       ELSE /\ pc' = "gui"
            /\ UNCHANGED out
    /\ UNCHANGED <<fsvars, stack, root, todo, file_data, file_structure, raised,
                   events, charts, pdf>>

\* Lines 70-81: the application, the scroll area and the plot widget; the
\* toolkit may raise (here, where it starts).
create_window ==
    /\ pc = "gui"
    /\ \E ok \in BOOLEAN :
         IF ok
         THEN /\ events' = Append(events, "window_created")
              /\ pc' = "plot"
              /\ UNCHANGED raised
         ELSE /\ raised' = Raise("RuntimeError", "gui", None)
              /\ pc' = "except"
              /\ UNCHANGED events
    /\ UNCHANGED <<fsvars, stack, root, todo, file_data, file_structure, out, charts, pdf>>

\* Lines 91-113: the next chart: its aggregate, then create_bar_chart.
add_plot ==
    /\ pc = "plot"
    /\ charts' = Append(charts, [title |-> ChartTitles[Len(charts) + 1],
                                 view  |-> ChartView(Len(charts) + 1, file_data)])
    /\ events' = Append(events, "chart")
    /\ pc' = IF Len(charts) + 1 = Len(ChartTitles) THEN "show" ELSE "plot"
    /\ UNCHANGED <<fsvars, stack, root, todo, file_data, file_structure, raised, out, pdf>>

\* Line 115: win.show()
show_window ==
    /\ pc = "show"
    /\ events' = Append(events, "window_shown")
    /\ pc' = "save_pdf"
    /\ UNCHANGED <<fsvars, stack, root, todo, file_data, file_structure, raised, out,
                   charts, pdf>>

\* Lines 116 and 40-59: one block of four lines per row, then the file is
\* written, which the file system may refuse.
save_pdf_report ==
    /\ pc = "save_pdf"
    /\ \E result \in {"written", "PermissionError", "FileNotFoundError"} :
         IF result = "written"
         THEN /\ pdf' = [i \in DOMAIN file_data |->
                           <<file_data[i].Folder, file_data[i].FileName,
                             file_data[i].FileSizeKB, file_data[i].FileType>>]
              /\ out' = Append(out, [text |-> "PDF report saved as ", msg |-> "file_analysis_report.pdf"])
              /\ events' = Append(events, "pdf_written")
              /\ pc' = "exec"
              /\ UNCHANGED raised
         ELSE /\ raised' = Raise(result, "file_analysis_report.pdf", None)
              /\ pc' = "except"
              /\ UNCHANGED <<pdf, out, events>>
    /\ UNCHANGED <<fsvars, stack, root, todo, file_data, file_structure, charts>>

\* Line 117: the event loop is entered ...
exec_enter ==
    /\ pc = "exec"
    /\ events' = Append(events, "loop_entered")
    /\ pc' = "event_loop"
    /\ UNCHANGED <<fsvars, stack, root, todo, file_data, file_structure, raised, out,
                   charts, pdf>>

\* ... and returns when the user closes the window; display_results and main return.
exec_return ==
    /\ pc = "event_loop"
    /\ events' = Append(events, "loop_returned")
    /\ pc' = "done"
    /\ UNCHANGED <<fsvars, stack, root, todo, file_data, file_structure, raised, out,
                   charts, pdf>>

\* The except clause that takes an exception of class cls (lines 127-130).
Handler(cls) == IF cls = "FileNotFoundError" THEN "Error: " ELSE "An unexpected error occurred: "

\* Lines 127-130: the handlers of main.
except ==
    /\ pc = "except"
    /\ out' = Append(out, [text |-> Handler(raised.cls), msg |-> raised.msg])
    /\ pc' = "done"
    /\ UNCHANGED <<fsvars, stack, root, todo, file_data, file_structure, raised,
                   events, charts, pdf>>

\* Line 123: the path read from the prompt, in a file system of the model.
Init ==
    /\ \E shape \in DirShapes :
         /\ dirs = shape
         /\ \E S \in SUBSET Slots(shape) :
              /\ Cardinality(S) <= MaxFiles
              /\ files \in [S -> FileOptions]
    /\ directory \in InputPaths
    /\ pc = "get_file_info"
    /\ stack = <<>>
    /\ root = None
    /\ todo = {}
    /\ file_data = <<>>
    /\ file_structure = EmptyTree
    /\ raised = NoException
    /\ out = <<>>
    /\ events = <<>>
    /\ charts = <<>>
    /\ pdf = NotWritten

Next ==
    \/ get_file_info
    \/ os_walk
    \/ visit_file
    \/ display_results
    \/ create_window
    \/ add_plot
    \/ show_window
    \/ save_pdf_report
    \/ exec_enter
    \/ exec_return
    \/ except

Spec == Init /\ [][Next]_vars

(* ------------------------------------------------------------------ *)
(* Properties                                                          *)
(* ------------------------------------------------------------------ *)

\* What the file system holds, stated apart from the code that reads it.
Under(p, d) == Len(p) > Len(d) /\ SubSeq(p, 1, Len(d)) = d

\* The root names nothing: no such entry, or a link whose target is gone.
RootMissing ==
    /\ directory \notin dirs
    /\ directory \notin DOMAIN files \/ files[directory].kind = "dangling"

\* The root names something stat can read.
RootFound ==
    \/ directory \in dirs
    \/ directory \in DOMAIN files /\ files[directory].kind \in {"regular", "special"}

\* The folders under the root (the root included) and the entries in them.
Folders == { d \in dirs : d = directory \/ Under(d, directory) }

Entries == { p \in DOMAIN files : Parent(p) \in Folders }

ReporterPcs == {"display_results", "gui", "plot", "show", "save_pdf", "exec", "event_loop"}

NotFoundLine ==
    [text |-> "Error: ",
     msg  |-> "The specified file path does not exist. Please provide a valid directory."]

NoFilesLine == [text |-> "No files found in the specified directory.", msg |-> ""]

Printed(text) == \E i \in DOMAIN out : out[i].text = text

RecordsOf(p) ==
    { i \in DOMAIN file_data :
        file_data[i].Folder = Parent(p) /\ file_data[i].FileName = Basename(p) }

RECURSIVE SumOver(_, _)
\* The sum of the function f over the set S.
SumOver(f, S) ==
    IF S = {} THEN 0
    ELSE LET x == CHOOSE y \in S : TRUE IN f[x] + SumOver(f, S \ {x})

\* C1: when the root path does not exist, get_file_info raises the not-found
\* error before anything is walked and before any record or tree node is
\* made; main prints that error and the run never aggregates, builds a chart,
\* creates a window or writes the PDF.
C1_NotFoundStopsTheRun ==
    RootMissing =>
        /\ pc \in {"get_file_info", "except", "done"}
        /\ stack = <<>> /\ root = None /\ todo = {}
        /\ file_data = <<>> /\ file_structure = EmptyTree
        /\ charts = <<>> /\ events = <<>> /\ pdf = NotWritten
        /\ pc # "get_file_info" => raised.cls = "FileNotFoundError" /\ raised.at = directory
        /\ pc = "done" => out = <<NotFoundLine>>

\* A run on a missing root (here beside files that do exist) has ended.
C1_Witness ==
    /\ RootMissing /\ pc = "done" /\ out = <<NotFoundLine>>
    /\ DOMAIN files # {}

\* C2: when the root exists and holds no file anywhere under it, the scan
\* returns zero records without an error, display_results prints the notice
\* and returns, and the run opens no window, builds no chart, writes no PDF
\* and never enters the event loop.
C2_EmptyScanOnlyPrintsNotice ==
    (RootFound /\ Entries = {}) =>
        /\ pc \in {"get_file_info", "walk", "display_results", "done"}
        /\ raised = NoException
        /\ file_data = <<>>
        /\ charts = <<>> /\ events = <<>> /\ pdf = NotWritten
        /\ pc = "done" => out = <<NoFilesLine>>

\* A run over a tree of empty directories has ended with the notice.
C2_Witness ==
    /\ directory = Top /\ dirs = {Top, DirA, DirB} /\ Entries = {}
    /\ pc = "done" /\ out = <<NoFilesLine>>

\* C3: when the scan completes, every regular file under the root has exactly
\* one record (none missing, none duplicated), and every record carries the
\* folder in which its entry lies and the entry's name in that folder.
C3_OneRecordPerFile ==
    pc = "display_results" =>
        /\ \A p \in Entries :
             files[p].kind = "regular" => Cardinality(RecordsOf(p)) = 1
        /\ \A i \in DOMAIN file_data :
             /\ file_data[i].Folder \in Folders
             /\ Append(file_data[i].Folder, file_data[i].FileName) \in Entries
        /\ \A i, j \in DOMAIN file_data :
             (file_data[i].Folder = file_data[j].Folder
                /\ file_data[i].FileName = file_data[j].FileName) => i = j

\* A completed scan of three regular files in three folders, one nested two deep.
C3_Witness ==
    /\ pc = "display_results" /\ Len(file_data) = MaxFiles
    /\ \A p \in Entries : files[p].kind = "regular"
    /\ \E i \in DOMAIN file_data : file_data[i].Folder = DirB
    /\ \E i \in DOMAIN file_data : file_data[i].Folder = Top

\* The byte size behind a record.
BytesOf(r) == files[Append(r.Folder, r.FileName)].size

RecordKB(i) == file_data[i].FileSizeKB

RecordBytes(i) == BytesOf(file_data[i])

Abs(x) == IF x < 0 THEN -x ELSE x

\* C4: every record's size_kb is bytes/1024 rounded to 2 decimals: it is not
\* negative and within 0.005 of bytes/1024 (2048 bytes give 2.0, 512 give
\* 0.5), so over N records the sum of size_kb * 1024 is within 5.12 * N of
\* the sum of the bytes.  (In hundredths k and bytes n: |1024 k - 100 n| <= 512.)
C4_SizeRoundedToHundredths ==
    /\ \A i \in DOMAIN file_data :
         /\ RecordKB(i) >= 0
         /\ Abs(1024 * RecordKB(i) - 100 * RecordBytes(i)) <= 512
         /\ RecordBytes(i) = 2048 => RecordKB(i) = 200
         /\ RecordBytes(i) = 512 => RecordKB(i) = 50
    /\ Abs(1024 * SumOver([i \in DOMAIN file_data |-> RecordKB(i)], DOMAIN file_data)
             - 100 * SumOver([i \in DOMAIN file_data |-> RecordBytes(i)], DOMAIN file_data))
          <= 512 * Len(file_data)

\* Records of 2048, 512 and 128 bytes: 2.0, 0.5 and (the tie 0.125) 0.12.
C4_Witness ==
    /\ Len(file_data) = 3
    /\ \E i \in DOMAIN file_data : RecordBytes(i) = 2048 /\ RecordKB(i) = 200
    /\ \E i \in DOMAIN file_data : RecordBytes(i) = 512 /\ RecordKB(i) = 50
    /\ \E i \in DOMAIN file_data : RecordBytes(i) = 128 /\ RecordKB(i) = 12

ErrorLines ==
    { i \in DOMAIN out : out[i].text \in {"Error: ", "An unexpected error occurred: "} }

\* C7: every failure is caught in main, one message is printed and the run
\* ends; the not-found message ("Error: ") is printed exactly when the root
\* does not exist, and every other failure (a stat failure on a file, a GUI
\* failure, a PDF failure) goes through "An unexpected error occurred".
C7_TwoWayErrorReport ==
    pc = "done" =>
        /\ Cardinality(ErrorLines) = (IF raised.cls = "None" THEN 0 ELSE 1)
        /\ Printed("Error: ") <=> ~RootFound
        /\ (raised.cls # "None" /\ RootFound) => Printed("An unexpected error occurred: ")

FolderNodes == { n \in file_structure : n.id \in dirs /\ n.id # directory }

LeafNodes == { n \in file_structure : n.id \notin dirs /\ n.parent # None }

RootNodes == { n \in file_structure : n.parent = None }

NodesWithId(nid) == { n \in file_structure : n.id = nid }

\* What C8 says of the root and of the leaves.
RootAndLeaves ==
    /\ RootNodes = {[id |-> directory, tag |-> directory, parent |-> None]}
    /\ \A i \in DOMAIN file_data :
         NodesWithId(Append(file_data[i].Folder, file_data[i].FileName))
             = {[id     |-> Append(file_data[i].Folder, file_data[i].FileName),
                 tag    |-> file_data[i].FileName,
                 parent |-> file_data[i].Folder]}
    /\ Cardinality(LeafNodes) = Len(file_data)
    /\ file_structure = RootNodes \cup FolderNodes \cup LeafNodes

\* C8 as claimed: after a completed scan the tree has the root as its only
\* root, one node for every folder the walk met (each directly under the
\* root, however deep the folder lies) and one leaf per record, identified by
\* the full path, under its folder's node.
C8_TreeHasEveryFolder ==
    pc \in ReporterPcs =>
        /\ RootAndLeaves
        /\ \A d \in Folders \ {directory} :
             NodesWithId(d) = {[id |-> d, tag |-> d, parent |-> directory]}
        /\ Cardinality(FolderNodes) = Cardinality(Folders \ {directory})

\* The folders, other than the root, that hold a record.
FoldersWithRecords ==
    { file_data[i].Folder : i \in DOMAIN file_data } \ {directory}

\* C8 amended: as C8, but a folder has a node exactly when it is not the root
\* and holds at least one file of its own; a folder that holds only
\* subfolders, or nothing, has none.
C8_TreeHasFoldersWithFiles ==
    pc \in ReporterPcs =>
        /\ RootAndLeaves
        /\ \A d \in FoldersWithRecords :
             NodesWithId(d) = {[id |-> d, tag |-> d, parent |-> directory]}
        /\ Cardinality(FolderNodes) = Cardinality(FoldersWithRecords)

\* A completed scan: files in the root and two levels down, none in between.
C8_Witness ==
    /\ pc = "display_results" /\ directory = Top
    /\ FoldersWithRecords = {DirB}
    /\ \E i \in DOMAIN file_data : file_data[i].Folder = Top
    /\ [id |-> DirB, tag |-> DirB, parent |-> Top] \in file_structure
    /\ ~Contains(file_structure, DirA)

StageOrder ==
    <<"window_created", "chart", "chart", "chart", "chart", "chart",
      "window_shown", "pdf_written", "loop_entered", "loop_returned">>

IsPrefix(s, t) == Len(s) <= Len(t) /\ SubSeq(t, 1, Len(s)) = s

Happened(e) == \E i \in DOMAIN events : events[i] = e

\* The scan has gone over the whole tree and raised nothing.
ScanWhole ==
    /\ stack = <<>> /\ todo = {}
    /\ raised.at = None
    /\ Len(file_data) = Cardinality(Entries)

\* C9: the stages never interleave.  The reporter runs only after the scan
\* has gone over the whole tree without an error (a scan that fails gives no
\* chart, no window, no PDF); the five charts come first, then the PDF, then
\* the event loop, which is entered at most once and only with at least one
\* record and the PDF written; a run that entered the loop ends only after
\* the loop has returned.
C9_StagesInOrder ==
    /\ IsPrefix(events, StageOrder)
    /\ (pc \in ReporterPcs \/ events # <<>>) => ScanWhole
    /\ raised.at # None => events = <<>> /\ charts = <<>> /\ pdf = NotWritten
    /\ Len(charts) = Cardinality({ i \in DOMAIN events : events[i] = "chart" })
    /\ pdf # NotWritten <=> Happened("pdf_written")
    /\ Happened("pdf_written") => Len(charts) = Len(ChartTitles)
    /\ Happened("loop_entered") => file_data # <<>> /\ pdf # NotWritten
    /\ pc = "event_loop" <=> (Happened("loop_entered") /\ ~Happened("loop_returned"))
    /\ (pc = "done" /\ Happened("loop_entered")) => events = StageOrder

\* A run that went through every stage and ended.
C9_Witness ==
    /\ pc = "done" /\ events = StageOrder /\ Len(file_data) = MaxFiles

TreeErrors == {"DuplicatedNodeIdError", "NodeIDAbsentError", "MultipleRootError"}

\* C10: building the tree never aborts a scan: whatever the tree and the walk
\* order, each node is created under an identifier the tree does not hold yet
\* and under a parent it holds already, so no tree error is raised.
C10_TreeNeverRaises ==
    /\ raised.cls \notin TreeErrors
    /\ pc = "files" =>
         \A file \in todo :
            /\ ~Contains(file_structure, Append(root, file))
            /\ Contains(file_structure, directory)
            /\ AddToTree(file_structure, root, file).err = "None"

\* A completed scan that met the same file name in two folders, one nested.
C10_Witness ==
    /\ pc = "display_results"
    /\ Contains(file_structure, <<"top", "f.txt">>)
    /\ Contains(file_structure, <<"top", "a", "b", "f.txt">>)
    /\ Contains(file_structure, <<"top", "a", "b", "g">>)

\* The rows of df whose column holds lab, in order.
RowsWith(df, column, lab) == SelectSeq(df, LAMBDA r : r[column] = lab)

RECURSIVE ExactHundredths(_)
\* The sum of the sizes of rows as 2-decimal numbers, in hundredths.
ExactHundredths(rows) ==
    IF rows = <<>> THEN 0 ELSE Head(rows).FileSizeKB + ExactHundredths(Tail(rows))

RECURSIVE FloatSumFrom(_, _)
FloatSumFrom(rows, acc) ==
    IF rows = <<>> THEN acc.sumx
    ELSE FloatSumFrom(Tail(rows), KahanAdd(acc, FromHundredths(Head(rows).FileSizeKB)))

\* The sum of the sizes of rows as the doubles add up, first row first.
FloatSum(rows) == FloatSumFrom(rows, [sumx |-> FZero, compensation |-> FZero])

TypesPresent == { file_data[i].FileType : i \in DOMAIN file_data }

FoldersPresent == { file_data[i].Folder : i \in DOMAIN file_data }

\* The column each chart groups by, and the charts that sum sizes.
ChartColumn == <<"FileType", "Folder", "FileType", "Folder", "FileType">>

SizeCharts == {1, 4, 5}

CountCharts == {2, 3}

ViewKeysRight ==
    \A c \in DOMAIN charts :
        DOMAIN charts[c].view =
            (IF ChartColumn[c] = "FileType" THEN TypesPresent ELSE FoldersPresent)

ViewCountsRight ==
    \A c \in CountCharts :
        /\ \A lab \in DOMAIN charts[c].view :
             charts[c].view[lab] =
                 Cardinality({ i \in DOMAIN file_data : file_data[i][ChartColumn[c]] = lab })
        /\ SumOver(charts[c].view, DOMAIN charts[c].view) = Len(file_data)

\* A size view holds, for each key, the 2-decimal sum of the key's sizes.
ViewSizesExact ==
    \A c \in SizeCharts : \A lab \in DOMAIN charts[c].view :
        charts[c].view[lab]
            = FromHundredths(ExactHundredths(RowsWith(file_data, ChartColumn[c], lab)))

\* A size view holds, for each key, the sum of the key's sizes as doubles add
\* up in record order; to 2 decimals that is the exact sum, and to 2 decimals
\* the sums of all keys make the total of all records.
ViewSizesFloat ==
    \A c \in SizeCharts :
        /\ \A lab \in DOMAIN charts[c].view :
             /\ charts[c].view[lab] = FloatSum(RowsWith(file_data, ChartColumn[c], lab))
             /\ ToHundredths(charts[c].view[lab])
                  = ExactHundredths(RowsWith(file_data, ChartColumn[c], lab))
        /\ SumOver([lab \in DOMAIN charts[c].view |-> ToHundredths(charts[c].view[lab])],
                   DOMAIN charts[c].view) = ExactHundredths(file_data)

\* C5 as claimed: the views drop and double-count nothing: each view's keys
\* are the values present in its column, a count view gives the number of
\* records per key (summing to the number of records), a size view gives the
\* sum of size_kb per key (summing to the total), and building the views
\* leaves the records as they were.
C5_ViewsAreExactSums ==
    /\ [](pc = "show" => (ViewKeysRight /\ ViewCountsRight /\ ViewSizesExact))
    /\ [][pc = "plot" => file_data' = file_data]_vars

\* C5 amended: as C5, but a size view gives per key the floating-point sum of
\* size_kb in record order, which is the exact sum only to within the rounding
\* of double addition (the same number to 2 decimals).
C5_ViewsAreFloatSums ==
    /\ [](pc = "show" => (ViewKeysRight /\ ViewCountsRight /\ ViewSizesFloat))
    /\ [][pc = "plot" => file_data' = file_data]_vars

\* All five views built over two types and two folders, one size view holding
\* a sum that is not the double of the exact sum (0.05 + 0.12).
C5_Witness ==
    /\ pc = "show" /\ Len(charts) = Len(ChartTitles)
    /\ Cardinality(TypesPresent) = 2 /\ Cardinality(FoldersPresent) = 2
    /\ ViewKeysRight /\ ViewCountsRight /\ ViewSizesFloat
    /\ ~ViewSizesExact

\* C6 as claimed: every permutation of the records gives, in each grouping,
\* the same value for every key (so two scans that list the files in
\* different orders give identical aggregates).
C6_ViewsIgnoreOrder ==
    [](pc = "show" =>
        \A p \in SeqPermutations(file_data) : \A c \in DOMAIN charts :
            ChartView(c, p) = charts[c].view)

\* C6 amended: every permutation of the records gives each grouping the same
\* keys, the count groupings the same values, and the size groupings values
\* that differ at most by the rounding of double addition (the same number to
\* 2 decimals).
C6_ViewsIgnoreOrderUpToRounding ==
    [](pc = "show" =>
        \A p \in SeqPermutations(file_data) : \A c \in DOMAIN charts :
            LET permuted == ChartView(c, p)
            IN  /\ DOMAIN permuted = DOMAIN charts[c].view
                /\ c \in CountCharts => permuted = charts[c].view
                /\ c \in SizeCharts =>
                     \A lab \in DOMAIN charts[c].view :
                        ToHundredths(permuted[lab]) = ToHundredths(charts[c].view[lab]))

\* Three records of one type whose sizes add up differently in another order.
C6_Witness ==
    /\ pc = "show" /\ Len(file_data) = 3
    /\ \E p \in SeqPermutations(file_data) :
         /\ ChartView(1, p) # charts[1].view
         /\ ChartView(2, p) = charts[2].view
         /\ \A lab \in DOMAIN charts[1].view :
              ToHundredths(ChartView(1, p)[lab]) = ToHundredths(charts[1].view[lab])

====
